---- MODULE Spec2Model ----
(***************************************************************************)
(* The negotiation state machine of the STM32 DCMIPP pixel processor       *)
(* (dcmipp-pixelproc.c): pad formats, crop/compose selection, frame        *)
(* interval and the register program of stream start.                      *)
(***************************************************************************)
EXTENDS Integers, Sequences, FiniteSets, TLC

VARIABLES
    pixelproc,  \* struct dcmipp_pixelproc_device
    state,      \* struct v4l2_subdev_state: the try formats and rectangles
    regs,       \* register writes issued by the latest start of a stream
    last,       \* the latest call: handler, pad, which, target
    ret,        \* the value the latest call returned
    started,    \* a start of the stream succeeded and no stop followed
    nops,       \* number of calls made
    out,        \* s->r after the latest call, when it was a get_selection
    sel         \* the set_selection that runs without the lock, if any

vars == <<pixelproc, state, regs, last, ret, started, nops, out, sel>>

----------------------------------------------------------------------------
\* Bounds of the model.

MaxOps == 3

----------------------------------------------------------------------------
\* Constants of the program.

EBUSY == 16
EINVAL == 22

DCMIPP_FMT_WIDTH_DEFAULT == 640
DCMIPP_FMT_HEIGHT_DEFAULT == 480

DCMIPP_FRAME_MAX_WIDTH == 4096
DCMIPP_FRAME_MAX_HEIGHT == 2160
DCMIPP_FRAME_MIN_WIDTH == 16
DCMIPP_FRAME_MIN_HEIGHT == 16

DCMIPP_MAX_DECIMATION_RATIO == 8
DCMIPP_MAX_DOWNSIZE_RATIO == 8
DCMIPP_MAX_DOWNSCALE_RATIO == 64

DCMIPP_PIXELPROC_HVRATIO_CONS == 8192
DCMIPP_PIXELPROC_HVRATIO_MAX == 65535
DCMIPP_PIXELPROC_HVDIV_CONS == 1024
DCMIPP_PIXELPROC_HVDIV_MAX == 1023

MEDIA_BUS_FMT_RGB565_2X8_LE == 4104
MEDIA_BUS_FMT_RGB888_1X24 == 4106
MEDIA_BUS_FMT_BGR888_1X24 == 4115
MEDIA_BUS_FMT_Y8_1X8 == 8193
MEDIA_BUS_FMT_UYVY8_1_5X8 == 8194
MEDIA_BUS_FMT_VYUY8_1_5X8 == 8195
MEDIA_BUS_FMT_YUYV8_1_5X8 == 8196
MEDIA_BUS_FMT_YVYU8_1_5X8 == 8197
MEDIA_BUS_FMT_UYVY8_2X8 == 8198
MEDIA_BUS_FMT_VYUY8_2X8 == 8199
MEDIA_BUS_FMT_YUYV8_2X8 == 8200
MEDIA_BUS_FMT_YVYU8_2X8 == 8201
MEDIA_BUS_FMT_YUYV8_1X16 == 8209
MEDIA_BUS_FMT_YVYU8_1X16 == 8210
MEDIA_BUS_FMT_YUV8_1X24 == 8229
MEDIA_BUS_FMT_SBGGR8_1X8 == 12289

PIXELPROC_MEDIA_BUS_SRC_FMT_DEFAULT == MEDIA_BUS_FMT_RGB565_2X8_LE
PIXELPROC_MEDIA_BUS_SINK_FMT_DEFAULT == MEDIA_BUS_FMT_RGB888_1X24

V4L2_SUBDEV_FORMAT_TRY == "TRY"
V4L2_SUBDEV_FORMAT_ACTIVE == "ACTIVE"

V4L2_SEL_TGT_CROP == "CROP"
V4L2_SEL_TGT_CROP_DEFAULT == "CROP_DEFAULT"
V4L2_SEL_TGT_CROP_BOUNDS == "CROP_BOUNDS"
V4L2_SEL_TGT_COMPOSE == "COMPOSE"
V4L2_SEL_TGT_COMPOSE_BOUNDS == "COMPOSE_BOUNDS"

V4L2_FIELD_ANY == "ANY"
V4L2_FIELD_NONE == "NONE"
V4L2_FIELD_INTERLACED == "INTERLACED"
V4L2_FIELD_ALTERNATE == "ALTERNATE"

V4L2_COLORSPACE_DEFAULT == 0
V4L2_COLORSPACE_SMPTE170M == 1
V4L2_COLORSPACE_REC709 == 3
V4L2_COLORSPACE_DCI_P3 == 12

\* The pads of the entity: pad 0 is the sink, pad 1 the source.
IS_SINK(pad) == pad = 0
IS_SRC(pad) == pad # 0

Min(a, b) == IF a < b THEN a ELSE b
Max(a, b) == IF a > b THEN a ELSE b

----------------------------------------------------------------------------
\* The pixel format tables.

PIXMAP_MBUS_PPCR_SWAPUV(mbus, pp_code, swap) ==
    [code |-> mbus, ppcr_fmt |-> pp_code, swap_uv |-> swap]

dcmipp_pixelproc_sink_pix_map_list == <<
    PIXMAP_MBUS_PPCR_SWAPUV(MEDIA_BUS_FMT_RGB888_1X24, 0, 0),
    PIXMAP_MBUS_PPCR_SWAPUV(MEDIA_BUS_FMT_YUV8_1X24, 0, 0) >>

dcmipp_pixelproc_src_pix_map_list == <<
    PIXMAP_MBUS_PPCR_SWAPUV(MEDIA_BUS_FMT_RGB888_1X24, 0, 1),
    PIXMAP_MBUS_PPCR_SWAPUV(MEDIA_BUS_FMT_BGR888_1X24, 0, 0),
    PIXMAP_MBUS_PPCR_SWAPUV(MEDIA_BUS_FMT_RGB565_2X8_LE, 1, 0),
    PIXMAP_MBUS_PPCR_SWAPUV(MEDIA_BUS_FMT_YUYV8_2X8, 6, 0),
    PIXMAP_MBUS_PPCR_SWAPUV(MEDIA_BUS_FMT_YVYU8_2X8, 6, 1),
    PIXMAP_MBUS_PPCR_SWAPUV(MEDIA_BUS_FMT_UYVY8_2X8, 10, 0),
    PIXMAP_MBUS_PPCR_SWAPUV(MEDIA_BUS_FMT_VYUY8_2X8, 10, 1),
    PIXMAP_MBUS_PPCR_SWAPUV(MEDIA_BUS_FMT_Y8_1X8, 4, 0),
    PIXMAP_MBUS_PPCR_SWAPUV(MEDIA_BUS_FMT_YUYV8_1_5X8, 8, 0),
    PIXMAP_MBUS_PPCR_SWAPUV(MEDIA_BUS_FMT_YVYU8_1_5X8, 8, 1),
    PIXMAP_MBUS_PPCR_SWAPUV(MEDIA_BUS_FMT_YUYV8_1X16, 7, 0),
    PIXMAP_MBUS_PPCR_SWAPUV(MEDIA_BUS_FMT_YVYU8_1X16, 7, 1),
    PIXMAP_MBUS_PPCR_SWAPUV(MEDIA_BUS_FMT_UYVY8_1_5X8, 9, 0),
    PIXMAP_MBUS_PPCR_SWAPUV(MEDIA_BUS_FMT_VYUY8_1_5X8, 9, 1) >>

\* A lookup returns <<entry>>, or <<>> for NULL.
dcmipp_pixelproc_pix_map_by_index(i, pad) ==
    LET l == IF IS_SRC(pad) THEN dcmipp_pixelproc_src_pix_map_list
                            ELSE dcmipp_pixelproc_sink_pix_map_list
    IN  IF i >= Len(l) THEN <<>> ELSE <<l[i + 1]>>

dcmipp_pixelproc_pix_map_by_code(code, pad) ==
    LET l == IF IS_SRC(pad) THEN dcmipp_pixelproc_src_pix_map_list
                            ELSE dcmipp_pixelproc_sink_pix_map_list
        hits == {i \in 1..Len(l) : l[i].code = code}
    IN  IF hits = {} THEN <<>>
        ELSE <<l[CHOOSE i \in hits : \A j \in hits : i <= j]>>

----------------------------------------------------------------------------
\* Formats and rectangles.

fmt_default ==
    [code |-> PIXELPROC_MEDIA_BUS_SINK_FMT_DEFAULT,
     width |-> DCMIPP_FMT_WIDTH_DEFAULT,
     height |-> DCMIPP_FMT_HEIGHT_DEFAULT,
     field |-> V4L2_FIELD_NONE,
     colorspace |-> V4L2_COLORSPACE_REC709,
     ycbcr_enc |-> 0,
     quantization |-> 0,
     xfer_func |-> 0]

MkRect(left, top, width, height) ==
    [left |-> left, top |-> top, width |-> width, height |-> height]

crop_min == MkRect(0, 0, DCMIPP_FRAME_MIN_WIDTH, DCMIPP_FRAME_MIN_HEIGHT)

clamp_t(val, lo, hi) == Min(Max(val, lo), hi)

\* v4l2-rect.h
v4l2_rect_set_min_size(r, min_size) ==
    [r EXCEPT !.width = IF r.width < min_size.width THEN min_size.width ELSE @,
              !.height = IF r.height < min_size.height THEN min_size.height ELSE @]

v4l2_rect_set_max_size(r, max_size) ==
    [r EXCEPT !.width = IF r.width > max_size.width THEN max_size.width ELSE @,
              !.height = IF r.height > max_size.height THEN max_size.height ELSE @]

v4l2_rect_map_inside(r, boundary) ==
    LET r1 == v4l2_rect_set_max_size(r, boundary)
        r2 == [r1 EXCEPT !.left = IF r1.left < boundary.left THEN boundary.left ELSE @,
                         !.top = IF r1.top < boundary.top THEN boundary.top ELSE @]
        r3 == [r2 EXCEPT !.left =
                  IF r2.left + r2.width > boundary.left + boundary.width
                  THEN boundary.left + boundary.width - r2.width ELSE @]
    IN  [r3 EXCEPT !.top =
            IF r3.top + r3.height > boundary.top + boundary.height
            THEN boundary.top + boundary.height - r3.height ELSE @]

\* dcmipp-common.h
dcmipp_colorimetry_clamp(fmt) ==
    IF fmt.colorspace = V4L2_COLORSPACE_DEFAULT
       \/ fmt.colorspace > V4L2_COLORSPACE_DCI_P3
    THEN [fmt EXCEPT !.colorspace = V4L2_COLORSPACE_REC709,
                     !.ycbcr_enc = 0, !.quantization = 0, !.xfer_func = 0]
    ELSE fmt

dcmipp_pixelproc_get_crop_bound(fmt) ==
    [left |-> 0, top |-> 0, width |-> fmt.width, height |-> fmt.height]

dcmipp_pixelproc_adjust_crop_MinSizeOnly(r, fmt) ==
    v4l2_rect_set_min_size(r, crop_min)

dcmipp_pixelproc_adjust_crop(r, fmt) ==
    LET src_rect == dcmipp_pixelproc_get_crop_bound(fmt)
    IN  v4l2_rect_map_inside(v4l2_rect_set_min_size(r, crop_min), src_rect)

dcmipp_pixelproc_adjust_fmt_KeepCode(fmt, pad) ==
    LET f2 == [fmt EXCEPT
                 !.width = clamp_t(@, DCMIPP_FRAME_MIN_WIDTH, DCMIPP_FRAME_MAX_WIDTH),
                 !.height = clamp_t(@, DCMIPP_FRAME_MIN_HEIGHT, DCMIPP_FRAME_MAX_HEIGHT)]
        f3 == IF f2.field = V4L2_FIELD_ANY \/ f2.field = V4L2_FIELD_ALTERNATE
              THEN [f2 EXCEPT !.field = V4L2_FIELD_NONE]
              ELSE f2
    IN  dcmipp_colorimetry_clamp(f3)

dcmipp_pixelproc_adjust_fmt(fmt, pad) ==
    LET vpix == dcmipp_pixelproc_pix_map_by_code(fmt.code, pad)
        f1 == IF vpix = <<>>
              THEN [fmt EXCEPT !.code =
                       IF IS_SRC(pad) THEN PIXELPROC_MEDIA_BUS_SRC_FMT_DEFAULT
                                      ELSE PIXELPROC_MEDIA_BUS_SINK_FMT_DEFAULT]
              ELSE fmt
        f2 == [f1 EXCEPT
                 !.width = clamp_t(@, DCMIPP_FRAME_MIN_WIDTH, DCMIPP_FRAME_MAX_WIDTH),
                 !.height = clamp_t(@, DCMIPP_FRAME_MIN_HEIGHT, DCMIPP_FRAME_MAX_HEIGHT)]
        f3 == IF f2.field = V4L2_FIELD_ANY \/ f2.field = V4L2_FIELD_ALTERNATE
              THEN [f2 EXCEPT !.field = V4L2_FIELD_NONE]
              ELSE f2
    IN  dcmipp_colorimetry_clamp(f3)

----------------------------------------------------------------------------
\* The device and the try state of a file handle.

mutex_lock(dev) == [dev EXCEPT !.lock = TRUE]
mutex_unlock(dev) == [dev EXCEPT !.lock = FALSE]

v4l2_subdev_get_try_format(st, pad) == st.try_fmt[pad + 1]

\* Code the source pad takes when the sink format is set.
PropagatedSrcCode_NoLowerBound(code) ==
    IF code < MEDIA_BUS_FMT_SBGGR8_1X8
    THEN MEDIA_BUS_FMT_YUYV8_2X8
    ELSE MEDIA_BUS_FMT_RGB565_2X8_LE

PropagatedSrcCode(code) ==
    IF code >= MEDIA_BUS_FMT_Y8_1X8 /\ code < MEDIA_BUS_FMT_SBGGR8_1X8
    THEN MEDIA_BUS_FMT_YUYV8_2X8
    ELSE MEDIA_BUS_FMT_RGB565_2X8_LE

\* The streaming guard of set_fmt.
SetFmtBusy_Dropped(dev, fmt) == FALSE

SetFmtBusy(dev, fmt) ==
    fmt.which = V4L2_SUBDEV_FORMAT_ACTIVE /\ dev.streaming

\* Whether the source format that follows the sink is the device's one.
SetFmtSrcPadIsActive_Always(fmt) == TRUE

SetFmtSrcPadIsActive(fmt) == fmt.which = V4L2_SUBDEV_FORMAT_ACTIVE

\* Update sink pad crop - compose
ResetSelection_CropOnly(dev, format) ==
    [dev EXCEPT !.crop = MkRect(0, 0, format.width, format.height)]

ResetSelection_ComposeOnly(dev, format) ==
    [dev EXCEPT !.compose = MkRect(0, 0, format.width, format.height)]

ResetSelection(dev, format) ==
    [dev EXCEPT !.crop = MkRect(0, 0, format.width, format.height),
                !.compose = MkRect(0, 0, format.width, format.height)]

\* fmt is the struct v4l2_subdev_format of the call: pad, which, format.
dcmipp_pixelproc_set_fmt(dev, st, fmt) ==
    LET d0 == mutex_lock(dev)
        active == fmt.which = V4L2_SUBDEV_FORMAT_ACTIVE
    IN  IF SetFmtBusy(d0, fmt)
        THEN [pixelproc |-> mutex_unlock(d0), state |-> st, ret |-> -EBUSY]
        ELSE
        LET format == dcmipp_pixelproc_adjust_fmt(fmt.format, fmt.pad)
            src_pad_fmt == [format EXCEPT !.code = PropagatedSrcCode(format.code)]
            \* When setting sink format, we have to update the src format
            d1 == IF IS_SINK(fmt.pad) /\ SetFmtSrcPadIsActive(fmt)
                  THEN [d0 EXCEPT !.src_fmt = src_pad_fmt] ELSE d0
            s1 == IF IS_SINK(fmt.pad) /\ ~SetFmtSrcPadIsActive(fmt)
                  THEN [st EXCEPT !.try_fmt[2] = src_pad_fmt] ELSE st
            \* *pad_fmt = fmt->format
            d2 == IF ~active THEN d1
                  ELSE IF IS_SINK(fmt.pad) THEN [d1 EXCEPT !.sink_fmt = format]
                  ELSE [d1 EXCEPT !.src_fmt = format]
            s2 == IF active THEN s1
                  ELSE [s1 EXCEPT !.try_fmt[fmt.pad + 1] = format]
            d3 == IF IS_SINK(fmt.pad) /\ active
                  THEN ResetSelection(d2, format) ELSE d2
        IN  [pixelproc |-> mutex_unlock(d3), state |-> s2, ret |-> 0]

\* The clamp of a compose dimension against the crop dimension.
ComposeClamp_NoLowerBound(val, crop_dim) ==
    IF val > crop_dim THEN crop_dim ELSE val

ComposeClamp(val, crop_dim) ==
    IF val > crop_dim THEN crop_dim
    ELSE IF val < crop_dim \div DCMIPP_MAX_DOWNSCALE_RATIO
    THEN crop_dim \div DCMIPP_MAX_DOWNSCALE_RATIO
    ELSE val

\* s is the struct v4l2_subdev_selection of the call: pad, which, target, r.
dcmipp_pixelproc_set_selection(dev, st, s) ==
    LET active == s.which = V4L2_SUBDEV_FORMAT_ACTIVE
        sink_fmt == IF active THEN dev.sink_fmt
                    ELSE v4l2_subdev_get_try_format(st, s.pad)
        crop == IF active THEN dev.crop ELSE st.try_crop
        \* the rectangle of the call after the handler adjusted it
        r == IF s.target = V4L2_SEL_TGT_CROP
             THEN dcmipp_pixelproc_adjust_crop(s.r, sink_fmt)
             ELSE [left |-> 0, top |-> 0,
                   width |-> ComposeClamp(s.r.width, crop.width),
                   height |-> ComposeClamp(s.r.height, crop.height)]
    IN  IF IS_SRC(s.pad)
        THEN [pixelproc |-> dev, state |-> st, ret |-> -EINVAL]
        ELSE IF s.target \notin {V4L2_SEL_TGT_CROP, V4L2_SEL_TGT_COMPOSE}
        THEN [pixelproc |-> dev, state |-> st, ret |-> -EINVAL]
        ELSE IF active
        THEN [pixelproc |->
                 [dev EXCEPT
                    !.crop = IF s.target = V4L2_SEL_TGT_CROP THEN r ELSE @,
                    \* Setting the crop also set the compose identically
                    !.compose = r,
                    \* Update the source pad size
                    !.src_fmt.width = r.width,
                    !.src_fmt.height = r.height],
              state |-> st, ret |-> 0]
        ELSE [pixelproc |-> dev,
              state |->
                 [st EXCEPT
                    !.try_crop = IF s.target = V4L2_SEL_TGT_CROP THEN r ELSE @,
                    !.try_compose = r,
                    !.try_fmt[2].width = r.width,
                    !.try_fmt[2].height = r.height],
              ret |-> 0]

\* s is the struct v4l2_subdev_selection of the call; r is s->r on return.
dcmipp_pixelproc_get_selection_ActiveOnly(dev, st, s) ==
    IF IS_SRC(s.pad) THEN [ret |-> -EINVAL, r |-> s.r]
    ELSE IF s.target = V4L2_SEL_TGT_CROP
    THEN [ret |-> 0, r |-> dev.crop]
    ELSE IF s.target \in {V4L2_SEL_TGT_CROP_BOUNDS, V4L2_SEL_TGT_CROP_DEFAULT}
    THEN [ret |-> 0, r |-> dcmipp_pixelproc_get_crop_bound(dev.sink_fmt)]
    ELSE IF s.target = V4L2_SEL_TGT_COMPOSE
    THEN [ret |-> 0, r |-> dev.compose]
    ELSE [ret |-> -EINVAL, r |-> s.r]

dcmipp_pixelproc_get_selection(dev, st, s) ==
    LET active == s.which = V4L2_SUBDEV_FORMAT_ACTIVE
        sink_fmt == IF active THEN dev.sink_fmt
                    ELSE v4l2_subdev_get_try_format(st, s.pad)
        crop == IF active THEN dev.crop ELSE st.try_crop
        compose == IF active THEN dev.compose ELSE st.try_compose
    IN  IF IS_SRC(s.pad) THEN [ret |-> -EINVAL, r |-> s.r]
        ELSE IF s.target = V4L2_SEL_TGT_CROP
        THEN [ret |-> 0, r |-> crop]
        ELSE IF s.target \in {V4L2_SEL_TGT_CROP_BOUNDS, V4L2_SEL_TGT_CROP_DEFAULT}
        THEN [ret |-> 0, r |-> dcmipp_pixelproc_get_crop_bound(sink_fmt)]
        ELSE IF s.target = V4L2_SEL_TGT_COMPOSE
        THEN [ret |-> 0, r |-> compose]
        ELSE [ret |-> -EINVAL, r |-> s.r]

----------------------------------------------------------------------------
\* Frame interval.

dcmipp_frates == <<1, 2, 4, 8>>

\* Product of two u32 values modulo 2^32, by 16-bit halves.  The operands of
\* the model keep every partial sum below 2^31.
MulU32(a, b) ==
    LET al == a % 65536
        ah == a \div 65536
        bl == b % 65536
        bh == b \div 65536
    IN  ((ah * bl + al * bh) % 65536) * 65536 + al * bl

\* Quotient of two u32 values; dz is what a division by zero leaves.
DivU32(a, b, dz) == IF b = 0 THEN dz ELSE a \div b

\* Normalize ratio
FrameSkipRatio_Inverted(sink_interval, interval, dz) ==
    DivU32(MulU32(sink_interval.numerator, interval.denominator),
           MulU32(sink_interval.denominator, interval.numerator), dz)

FrameSkipRatio(sink_interval, interval, dz) ==
    DivU32(MulU32(sink_interval.denominator, interval.numerator),
           MulU32(sink_interval.numerator, interval.denominator), dz)

\* Setting sink frame interval resets frame skipping.
\* Sink frame interval is propagated to src.
SinkIntervalUpdate_KeepFrate(dev, interval) ==
    [dev EXCEPT !.sink_interval = interval,
                !.src_interval = interval]

SinkIntervalUpdate(dev, interval) ==
    [dev EXCEPT !.frate = 0,
                !.sink_interval = interval,
                !.src_interval = interval]

\* A request with a zero member is replaced by the sink interval.
RequestedInterval(sink_interval, interval) ==
    IF interval.numerator = 0 \/ interval.denominator = 0
    THEN sink_interval ELSE interval

\* fi is the struct v4l2_subdev_frame_interval of the call: pad, interval.
dcmipp_pixelproc_s_frame_interval(dev, fi, dz) ==
    LET d0 == mutex_lock(dev)
    IN  IF d0.streaming
        THEN [pixelproc |-> mutex_unlock(d0), ret |-> -EBUSY]
        ELSE
        LET interval == RequestedInterval(d0.sink_interval, fi.interval)
            ratio == FrameSkipRatio(d0.sink_interval, interval, dz)
            \* Hardware can skip 1 frame over 2, 4 or 8
            frate == IF ratio >= 8 THEN 3
                     ELSE IF ratio >= 4 THEN 2
                     ELSE IF ratio >= 2 THEN 1 ELSE 0
            d1 == IF IS_SINK(fi.pad)
                  THEN SinkIntervalUpdate(d0, interval)
                  ELSE [d0 EXCEPT
                          !.frate = frate,
                          !.src_interval =
                             [numerator |-> MulU32(d0.sink_interval.numerator,
                                                   dcmipp_frates[frate + 1]),
                              denominator |-> d0.sink_interval.denominator]]
        IN  [pixelproc |-> mutex_unlock(d1), ret |-> 0]

----------------------------------------------------------------------------
\* Stream start: the register program.

reg_write(reg, val) == <<"write", reg, val>>
reg_set(reg, val) == <<"set", reg, val>>
reg_clear(reg, val) == <<"clear", reg, val>>

RECURSIVE Decimation_Inclusive(_, _, _)
Decimation_Inclusive(target, post_dec, dec) ==
    IF target * DCMIPP_MAX_DOWNSIZE_RATIO <= post_dec /\ post_dec > 0
    THEN Decimation_Inclusive(target, post_dec \div 2, dec + 1)
    ELSE [dec |-> dec, post_dec |-> post_dec]

\* The decimation loop: halve post_dec while target * 8 < post_dec.
RECURSIVE Decimation(_, _, _)
Decimation(target, post_dec, dec) ==
    IF target * DCMIPP_MAX_DOWNSIZE_RATIO < post_dec
    THEN Decimation(target, post_dec \div 2, dec + 1)
    ELSE [dec |-> dec, post_dec |-> post_dec]

DownscalePlan_NoDivClamp(crop, compose, dz) ==
    LET h == Decimation(compose.width, crop.width, 0)
        v == Decimation(compose.height, crop.height, 0)
    IN  [hdec |-> h.dec, vdec |-> v.dec,
         hratio |-> Min(DivU32(h.post_dec * DCMIPP_PIXELPROC_HVRATIO_CONS,
                               compose.width, dz),
                        DCMIPP_PIXELPROC_HVRATIO_MAX),
         vratio |-> Min(DivU32(v.post_dec * DCMIPP_PIXELPROC_HVRATIO_CONS,
                               compose.height, dz),
                        DCMIPP_PIXELPROC_HVRATIO_MAX),
         hdiv |-> DivU32(DCMIPP_PIXELPROC_HVDIV_CONS * compose.width,
                         h.post_dec, dz),
         vdiv |-> DivU32(DCMIPP_PIXELPROC_HVDIV_CONS * compose.height,
                         v.post_dec, dz)]

\* The scaler plan of a crop and a compose rectangle.
DownscalePlan(crop, compose, dz) ==
    LET h == Decimation(compose.width, crop.width, 0)
        v == Decimation(compose.height, crop.height, 0)
    IN  [hdec |-> h.dec, vdec |-> v.dec,
         hratio |-> Min(DivU32(h.post_dec * DCMIPP_PIXELPROC_HVRATIO_CONS,
                               compose.width, dz),
                        DCMIPP_PIXELPROC_HVRATIO_MAX),
         vratio |-> Min(DivU32(v.post_dec * DCMIPP_PIXELPROC_HVRATIO_CONS,
                               compose.height, dz),
                        DCMIPP_PIXELPROC_HVRATIO_MAX),
         hdiv |-> Min(DivU32(DCMIPP_PIXELPROC_HVDIV_CONS * compose.width,
                             h.post_dec, dz),
                      DCMIPP_PIXELPROC_HVDIV_MAX),
         vdiv |-> Min(DivU32(DCMIPP_PIXELPROC_HVDIV_CONS * compose.height,
                             v.post_dec, dz),
                      DCMIPP_PIXELPROC_HVDIV_MAX)]

dcmipp_pixelproc_set_downscale_EnableFirst(dev, dz) ==
    LET p == DownscalePlan(dev.crop, dev.compose, dz)
    IN  <<reg_clear("PxDCCR", <<"ENABLE">>)>>
        \o (IF p.hdec # 0 \/ p.vdec # 0
            THEN <<reg_write("PxDCCR", <<p.hdec, p.vdec, "ENABLE">>)>>
            ELSE <<>>)
        \o <<reg_clear("PxDSCR", <<"ENABLE">>),
             reg_write("PxDSCR", <<p.hdiv, p.vdiv, "ENABLE">>),
             reg_write("PxDSRTIOR", <<p.hratio, p.vratio>>),
             reg_write("PxDSSZR", <<dev.compose.width, dev.compose.height>>)>>

\* The writes of dcmipp_pixelproc_set_downscale, in order.
dcmipp_pixelproc_set_downscale(dev, dz) ==
    LET p == DownscalePlan(dev.crop, dev.compose, dz)
    IN  <<reg_clear("PxDCCR", <<"ENABLE">>)>>
        \o (IF p.hdec # 0 \/ p.vdec # 0
            THEN <<reg_write("PxDCCR", <<p.hdec, p.vdec, "ENABLE">>)>>
            ELSE <<>>)
        \o <<reg_clear("PxDSCR", <<"ENABLE">>),
             reg_write("PxDSRTIOR", <<p.hratio, p.vratio>>),
             reg_write("PxDSSZR", <<dev.compose.width, dev.compose.height>>),
             reg_write("PxDSCR", <<p.hdiv, p.vdiv, "ENABLE">>)>>

dcmipp_pixelproc_configure_framerate(dev) ==
    <<reg_clear("PxFCTCR", <<"FRATE_MASK">>), reg_set("PxFCTCR", <<dev.frate>>)>>

\* cc is what dcmipp_colorconv_configure returned: ret, conv_matrix,
\* clamping, clamping_as_rgb, enable.
dcmipp_pixelproc_colorconv_config(dev, cc) ==
    IF cc.ret # 0
    THEN [writes |-> <<>>, ret |-> cc.ret]
    ELSE [writes |->
             [i \in 1..6 |-> reg_write("P1YUVRR1", <<i - 1, cc.conv_matrix[i]>>)]
             \o <<reg_write("P1YUVCR",
                            <<cc.clamping, cc.clamping_as_rgb, cc.enable>>)>>,
          ret |-> 0]

\* The control handler: in_use is the answer of pm_runtime_get_if_in_use.
dcmipp_pixelproc_s_ctrl(dev, in_use) ==
    IF ~in_use THEN <<>>
    ELSE <<reg_write("PxGMCR", <<dev.gamma_correction>>)>>

\* Configure YUV Conversion (if applicable)
ColorConvApplies_AnyPipe(dev) == TRUE

ColorConvApplies(dev) == dev.pipe_id = 1

\* The result of a call with enable # 0: the writes issued and the return.
dcmipp_pixelproc_s_stream(dev, enable, cc, in_use, dz) ==
    IF enable = 0
    THEN [pixelproc |-> dev, writes |-> <<>>, ret |-> 0]
    ELSE
    LET d0 == mutex_lock(dev)
        w1 == dcmipp_pixelproc_configure_framerate(d0)
              \o <<reg_write("PxCRSTR", <<d0.crop.top, d0.crop.left>>),
                   reg_write("PxCRSZR",
                             <<d0.crop.width, d0.crop.height, "ENABLE">>)>>
              \o dcmipp_pixelproc_set_downscale(d0, dz)
        conv == IF ColorConvApplies(d0)
                THEN dcmipp_pixelproc_colorconv_config(d0, cc)
                ELSE [writes |-> <<>>, ret |-> 0]
        vpix == dcmipp_pixelproc_pix_map_by_code(d0.src_fmt.code, 1)
    IN  IF conv.ret # 0
        THEN [pixelproc |-> mutex_unlock(d0), writes |-> w1, ret |-> conv.ret]
        ELSE IF vpix = <<>>
        THEN [pixelproc |-> mutex_unlock(d0), writes |-> w1 \o conv.writes,
              ret |-> -EINVAL]
        ELSE [pixelproc |-> mutex_unlock(d0),
              writes |-> w1 \o conv.writes
                         \o <<reg_write("PxPPCR",
                                        <<vpix[1].ppcr_fmt, vpix[1].swap_uv>>)>>
                         \o dcmipp_pixelproc_s_ctrl(d0, in_use),
              ret |-> 0]

----------------------------------------------------------------------------
\* The values the calls are made with.

Pads == {0, 1}
Whichs == {V4L2_SUBDEV_FORMAT_TRY, V4L2_SUBDEV_FORMAT_ACTIVE}
Targets == {V4L2_SEL_TGT_CROP, V4L2_SEL_TGT_COMPOSE, V4L2_SEL_TGT_CROP_BOUNDS}

MkFmt(code, width, height, field, colorspace, other) ==
    [code |-> code, width |-> width, height |-> height, field |-> field,
     colorspace |-> colorspace, ycbcr_enc |-> other, quantization |-> other,
     xfer_func |-> other]

FmtInputs ==
    { MkFmt(MEDIA_BUS_FMT_RGB888_1X24, 8, 8, V4L2_FIELD_ANY,
            V4L2_COLORSPACE_DEFAULT, 1),
      MkFmt(MEDIA_BUS_FMT_YUV8_1X24, 128, 96, V4L2_FIELD_NONE,
            V4L2_COLORSPACE_SMPTE170M, 1),
      MkFmt(MEDIA_BUS_FMT_YUYV8_2X8, 5000, 3000, V4L2_FIELD_ALTERNATE,
            V4L2_COLORSPACE_DCI_P3 + 1, 2),
      MkFmt(MEDIA_BUS_FMT_SBGGR8_1X8, 320, 240, V4L2_FIELD_INTERLACED,
            V4L2_COLORSPACE_DCI_P3, 0) }

RectInputs ==
    { MkRect(0, 0, 0, 0),
      MkRect(16, 8, 64, 32),
      MkRect(-4, 5000, 9000, 9000),
      MkRect(100, 100, 100, 1),
      MkRect(0, 0, 80, 60) }

MkFract(numerator, denominator) ==
    [numerator |-> numerator, denominator |-> denominator]

\* The last two make sink.numerator * interval.denominator pass 2^32:
\* (3 * 2^29 + 1) * 8 = 3 * 2^32 + 8.
IntervalInputs ==
    { MkFract(0, 1), MkFract(1, 30), MkFract(1, 240),
      MkFract(1610612737, 1), MkFract(64, 8) }

Enables == {0, 1}

\* Answers of dcmipp_colorconv_configure.
ColorConvResults ==
    { [ret |-> -EINVAL, conv_matrix |-> <<0, 0, 0, 0, 0, 0>>,
       clamping |-> FALSE, clamping_as_rgb |-> FALSE, enable |-> FALSE],
      [ret |-> 0, conv_matrix |-> <<1, 2, 3, 4, 5, 6>>,
       clamping |-> TRUE, clamping_as_rgb |-> FALSE, enable |-> TRUE] }

\* What the build leaves as the quotient of a division by zero.
DivByZeroQuotients == {0, 2147483647}

----------------------------------------------------------------------------
\* The state after dcmipp_pixelproc_ent_init, for a pipe and a value of the
\* streaming member.

dcmipp_pixelproc_ent_init(pipe_id, streaming) ==
    LET interval == MkFract(1, 30)
        rect == MkRect(0, 0, DCMIPP_FMT_WIDTH_DEFAULT, DCMIPP_FMT_HEIGHT_DEFAULT)
    IN  [sink_fmt |-> [fmt_default EXCEPT !.code = PIXELPROC_MEDIA_BUS_SINK_FMT_DEFAULT],
         src_fmt |-> [fmt_default EXCEPT !.code = PIXELPROC_MEDIA_BUS_SRC_FMT_DEFAULT],
         streaming |-> streaming,
         lock |-> FALSE,
         pipe_id |-> pipe_id,
         src_interval |-> interval,
         sink_interval |-> interval,
         frate |-> 0,
         crop |-> rect,
         compose |-> rect,
         gamma_correction |-> 0]

\* The try state of a new file handle: zeroed, then the try formats set.
dcmipp_pixelproc_init_cfg ==
    [try_fmt |-> << [fmt_default EXCEPT !.code = PIXELPROC_MEDIA_BUS_SINK_FMT_DEFAULT],
                    [fmt_default EXCEPT !.code = PIXELPROC_MEDIA_BUS_SRC_FMT_DEFAULT] >>,
     try_crop |-> MkRect(0, 0, 0, 0),
     try_compose |-> MkRect(0, 0, 0, 0)]

NoCall == [op |-> "none", pad |-> 0, which |-> "-", target |-> "-", enable |-> 0]

\* What s->r holds when no get_selection filled it.
NoRect == MkRect(-1, -1, 0, 0)

\* The crop, the compose and the source size of the device: what a start of
\* the stream reads of the negotiation.
Negotiated(dev) ==
    [crop |-> dev.crop, compose |-> dev.compose,
     width |-> dev.src_fmt.width, height |-> dev.src_fmt.height]

\* No set_selection is between two of its writes.  pc is the position of the
\* call, r its s->r; found is what the call found when it was entered, kept
\* for the properties only.
NoSel ==
    [pc |-> "idle", which |-> "-", target |-> "-", r |-> NoRect,
     found |-> [crop |-> NoRect, compose |-> NoRect, width |-> 0, height |-> 0]]

InitWith(streamings) ==
    /\ \E pipe_id \in {1, 2}, streaming \in streamings :
          pixelproc = dcmipp_pixelproc_ent_init(pipe_id, streaming)
    /\ state = dcmipp_pixelproc_init_cfg
    /\ regs = <<>>
    /\ last = NoCall
    /\ ret = 0
    /\ started = FALSE
    /\ nops = 0
    /\ out = NoRect
    /\ sel = NoSel

\* kzalloc leaves the streaming member false.
Init == InitWith({FALSE})

----------------------------------------------------------------------------
\* One action per handler.

SetFmt(pad, which, format) ==
    LET res == dcmipp_pixelproc_set_fmt(pixelproc, state,
                   [pad |-> pad, which |-> which, format |-> format])
    IN  /\ nops < MaxOps
        /\ pixelproc' = res.pixelproc
        /\ state' = res.state
        /\ ret' = res.ret
        /\ last' = [op |-> "set_fmt", pad |-> pad, which |-> which,
                    target |-> "-", enable |-> 0]
        /\ nops' = nops + 1
        /\ out' = NoRect
        /\ UNCHANGED <<regs, started, sel>>

SetSelection(pad, which, target, r) ==
    LET res == dcmipp_pixelproc_set_selection(pixelproc, state,
                   [pad |-> pad, which |-> which, target |-> target, r |-> r])
    IN  /\ nops < MaxOps
        /\ pixelproc' = res.pixelproc
        /\ state' = res.state
        /\ ret' = res.ret
        /\ last' = [op |-> "set_selection", pad |-> pad, which |-> which,
                    target |-> target, enable |-> 0]
        /\ nops' = nops + 1
        /\ out' = NoRect
        /\ UNCHANGED <<regs, started, sel>>

SFrameInterval(pad, interval, dz) ==
    LET res == dcmipp_pixelproc_s_frame_interval(pixelproc,
                   [pad |-> pad, interval |-> interval], dz)
    IN  /\ nops < MaxOps
        /\ pixelproc' = res.pixelproc
        /\ ret' = res.ret
        /\ last' = [op |-> "s_frame_interval", pad |-> pad, which |-> "-",
                    target |-> "-", enable |-> 0]
        /\ nops' = nops + 1
        /\ out' = NoRect
        /\ UNCHANGED <<state, regs, started, sel>>

SStream(enable, cc, in_use, dz) ==
    LET res == dcmipp_pixelproc_s_stream(pixelproc, enable, cc, in_use, dz)
    IN  /\ nops < MaxOps
        /\ pixelproc' = res.pixelproc
        /\ regs' = IF enable = 0 THEN regs ELSE res.writes
        /\ ret' = res.ret
        /\ started' = IF enable = 0 THEN FALSE
                      ELSE IF res.ret = 0 THEN TRUE ELSE started
        /\ last' = [op |-> "s_stream", pad |-> 0, which |-> "-",
                    target |-> "-", enable |-> enable]
        /\ nops' = nops + 1
        /\ out' = NoRect
        /\ UNCHANGED <<state, sel>>

DoSetFmt ==
    \E pad \in Pads, which \in Whichs, format \in FmtInputs :
        SetFmt(pad, which, format)

\* A call the handler rejects reads no rectangle: one is tried.  On the
\* source pad the handler returns before it reads the target: one is tried.
DoSetSelection ==
    \E pad \in Pads, which \in Whichs :
        \E target \in IF IS_SINK(pad) THEN Targets ELSE {V4L2_SEL_TGT_CROP} :
            \E r \in IF IS_SINK(pad) /\ target # V4L2_SEL_TGT_CROP_BOUNDS
                     THEN RectInputs ELSE {MkRect(0, 0, 0, 0)} :
                SetSelection(pad, which, target, r)

\* The quotients to try for a division by b.
QuotientsFor(b) == IF b = 0 THEN DivByZeroQuotients ELSE {0}

\* The divisor of the ratio that s_frame_interval computes for interval.
RatioDivisor(sink_interval, interval) ==
    MulU32(sink_interval.numerator,
           RequestedInterval(sink_interval, interval).denominator)

DoSFrameInterval ==
    \E pad \in Pads, interval \in IntervalInputs :
        \E dz \in QuotientsFor(RatioDivisor(pixelproc.sink_interval, interval)) :
            SFrameInterval(pad, interval, dz)

\* A stop reads none of the answers; only the main pipe asks the colour
\* conversion.
DoSStream ==
    \E enable \in Enables :
        \E cc \in IF enable # 0 /\ pixelproc.pipe_id = 1 THEN ColorConvResults
                  ELSE {CHOOSE c \in ColorConvResults : c.ret = 0},
           in_use \in IF enable # 0 THEN BOOLEAN ELSE {FALSE},
           dz \in IF enable # 0
                  THEN QuotientsFor(pixelproc.compose.width
                                    * pixelproc.compose.height)
                  ELSE {0} :
            SStream(enable, cc, in_use, dz)

Next == DoSetFmt \/ DoSetSelection \/ DoSFrameInterval \/ DoSStream

Spec == Init /\ [][Next]_vars

\* The streaming member is read by set_fmt and s_frame_interval and assigned
\* by no function of the file: this specification starts the device with the
\* member either way, so that the handlers are applied to both of its values.
InitStreamingAny == InitWith(BOOLEAN)

SpecStreamingAny == InitStreamingAny /\ [][Next]_vars

----------------------------------------------------------------------------
\* The selection handlers with every target, the queries included.

AllTargets ==
    {V4L2_SEL_TGT_CROP, V4L2_SEL_TGT_CROP_DEFAULT, V4L2_SEL_TGT_CROP_BOUNDS,
     V4L2_SEL_TGT_COMPOSE, V4L2_SEL_TGT_COMPOSE_BOUNDS}

GetSelection(pad, which, target) ==
    LET res == dcmipp_pixelproc_get_selection(pixelproc, state,
                   [pad |-> pad, which |-> which, target |-> target,
                    r |-> NoRect])
    IN  /\ nops < MaxOps
        /\ ret' = res.ret
        /\ out' = res.r
        /\ last' = [op |-> "get_selection", pad |-> pad, which |-> which,
                    target |-> target, enable |-> 0]
        /\ nops' = nops + 1
        /\ UNCHANGED <<pixelproc, state, regs, started, sel>>

\* The source pad is refused before the target is read: two targets stand
\* for all of them there.
TargetsOf(pad) ==
    IF IS_SINK(pad) THEN AllTargets
    ELSE {V4L2_SEL_TGT_CROP, V4L2_SEL_TGT_CROP_BOUNDS}

DoGetSelection ==
    \E pad \in Pads, which \in Whichs :
        \E target \in TargetsOf(pad) :
            GetSelection(pad, which, target)

DoSetSelectionAll ==
    \E pad \in Pads, which \in Whichs :
      \E target \in TargetsOf(pad) :
        \E r \in IF /\ IS_SINK(pad)
                    /\ target \in {V4L2_SEL_TGT_CROP, V4L2_SEL_TGT_COMPOSE}
                 THEN RectInputs ELSE {MkRect(0, 0, 0, 0)} :
            SetSelection(pad, which, target, r)

NextSelection == DoSetFmt \/ DoSetSelectionAll \/ DoGetSelection

SpecSelection == Init /\ [][NextSelection]_vars

----------------------------------------------------------------------------
\* set_selection beside the handlers that take the lock.  set_selection does
\* not take pixelproc->lock: its stores to *crop, *compose and the source
\* size are separate steps, and a handler that holds the lock runs between
\* any two of them.

\* The call is entered on the sink pad with which ACTIVE: s->r is adjusted
\* and the first store is made, *crop for CROP and *compose for COMPOSE.
SetSelectionBegin(target, r) ==
    LET adj == IF target = V4L2_SEL_TGT_CROP
               THEN dcmipp_pixelproc_adjust_crop(r, pixelproc.sink_fmt)
               ELSE [left |-> 0, top |-> 0,
                     width |-> ComposeClamp(r.width, pixelproc.crop.width),
                     height |-> ComposeClamp(r.height, pixelproc.crop.height)]
    IN  /\ nops < MaxOps
        /\ sel.pc = "idle"
        /\ pixelproc' = IF target = V4L2_SEL_TGT_CROP
                        THEN [pixelproc EXCEPT !.crop = adj]
                        ELSE [pixelproc EXCEPT !.compose = adj]
        /\ sel' = [pc |-> IF target = V4L2_SEL_TGT_CROP
                          THEN "crop_written" ELSE "compose_written",
                   which |-> V4L2_SUBDEV_FORMAT_ACTIVE, target |-> target,
                   r |-> adj, found |-> Negotiated(pixelproc)]
        /\ last' = [op |-> "set_selection", pad |-> 0,
                    which |-> V4L2_SUBDEV_FORMAT_ACTIVE,
                    target |-> target, enable |-> 0]
        /\ nops' = nops + 1
        /\ out' = NoRect
        /\ UNCHANGED <<state, regs, ret, started>>

\* The next store of the call that was entered.
SetSelectionStep ==
    /\ sel.pc # "idle"
    /\ \/ /\ sel.pc = "crop_written"
          \* Setting the crop also set the compose identically
          /\ pixelproc' = [pixelproc EXCEPT !.compose = pixelproc.crop]
          /\ sel' = [sel EXCEPT !.pc = "compose_written"]
          /\ UNCHANGED ret
       \/ /\ sel.pc = "compose_written"
          /\ pixelproc' = [pixelproc EXCEPT !.src_fmt.width = sel.r.width]
          /\ sel' = [sel EXCEPT !.pc = "width_written"]
          /\ UNCHANGED ret
       \/ /\ sel.pc = "width_written"
          /\ pixelproc' = [pixelproc EXCEPT !.src_fmt.height = sel.r.height]
          /\ sel' = NoSel
          /\ ret' = 0
    /\ UNCHANGED <<state, regs, last, started, nops, out>>

DoSetSelectionBegin ==
    \E target \in {V4L2_SEL_TGT_CROP, V4L2_SEL_TGT_COMPOSE}, r \in RectInputs :
        SetSelectionBegin(target, r)

NextRace == DoSetSelectionBegin \/ SetSelectionStep \/ DoSetFmt \/ DoSStream

SpecRace == Init /\ [][NextRace]_vars

----------------------------------------------------------------------------
\* The frame intervals alone, with a request whose members are 2^16.

WideIntervalInputs ==
    { MkFract(0, 1), MkFract(1, 0), MkFract(1, 30), MkFract(1, 240),
      MkFract(64, 8), MkFract(65536, 65536) }

DoSFrameIntervalWide ==
    \E pad \in Pads, interval \in WideIntervalInputs :
        \E dz \in QuotientsFor(RatioDivisor(pixelproc.sink_interval, interval)) :
            SFrameInterval(pad, interval, dz)

NextIntervals == DoSFrameIntervalWide \/ DoSStream

SpecIntervals == Init /\ [][NextIntervals]_vars

----------------------------------------------------------------------------
\* Vocabulary of the properties.

\* The PipeState of a device: what the negotiation has put in effect.
PipeStateOf(dev) ==
    <<dev.sink_fmt, dev.src_fmt, dev.crop, dev.compose,
      dev.sink_interval, dev.src_interval, dev.frate>>

SinkFmtOf(dev, st, which) ==
    IF which = V4L2_SUBDEV_FORMAT_ACTIVE THEN dev.sink_fmt ELSE st.try_fmt[1]
SrcFmtOf(dev, st, which) ==
    IF which = V4L2_SUBDEV_FORMAT_ACTIVE THEN dev.src_fmt ELSE st.try_fmt[2]
CropOf(dev, st, which) ==
    IF which = V4L2_SUBDEV_FORMAT_ACTIVE THEN dev.crop ELSE st.try_crop
ComposeOf(dev, st, which) ==
    IF which = V4L2_SUBDEV_FORMAT_ACTIVE THEN dev.compose ELSE st.try_compose

\* The call c asks to change the format or the interval in effect.
IsActiveFormatOrIntervalCall(c) ==
    \/ c.op = "set_fmt" /\ c.which = V4L2_SUBDEV_FORMAT_ACTIVE
    \/ c.op = "s_frame_interval"

\* The call c asks to change the crop or compose in effect.
IsActiveSelectionCall(c) ==
    /\ c.op = "set_selection" /\ IS_SINK(c.pad)
    /\ c.which = V4L2_SUBDEV_FORMAT_ACTIVE
    /\ c.target \in {V4L2_SEL_TGT_CROP, V4L2_SEL_TGT_COMPOSE}

\* The call c is a set_fmt or set_selection on the try state that names a
\* pad and target the handler supports.
IsSupportedTryCall(c) ==
    /\ c.which = V4L2_SUBDEV_FORMAT_TRY
    /\ \/ c.op = "set_fmt"
       \/ /\ c.op = "set_selection" /\ IS_SINK(c.pad)
          /\ c.target \in {V4L2_SEL_TGT_CROP, V4L2_SEL_TGT_COMPOSE}

FullFrame(fmt) == MkRect(0, 0, fmt.width, fmt.height)

\* r lies inside the full frame of fmt.
InsideFrame(r, fmt) ==
    /\ r.left >= 0 /\ r.top >= 0
    /\ r.left + r.width <= fmt.width
    /\ r.top + r.height <= fmt.height

\* The crop rectangle the rules of the negotiation give for a request r
\* against the frame of fmt: the size raised to the minimum and cut to the
\* frame, the origin moved so that the rectangle stays in the frame.
ClampedCrop(r, fmt) ==
    LET w == Min(Max(r.width, DCMIPP_FRAME_MIN_WIDTH), fmt.width)
        h == Min(Max(r.height, DCMIPP_FRAME_MIN_HEIGHT), fmt.height)
    IN  MkRect(Min(Max(r.left, 0), fmt.width - w),
               Min(Max(r.top, 0), fmt.height - h), w, h)

----------------------------------------------------------------------------
\* C1: after a start of the stream succeeded, every set_fmt on the active
\* state and every s_frame_interval fails with -EBUSY until a stop; after
\* the stop they succeed again.
C1_BusyBetweenStartAndStop ==
    IsActiveFormatOrIntervalCall(last) =>
        ret = IF started THEN -EBUSY ELSE 0

\* C2: while the streaming member is true, set_fmt on the active state and
\* s_frame_interval, on either pad, return -EBUSY, leave the PipeState as it
\* was and return with the lock released.
C2_BusyLeavesPipeState ==
    [][ pixelproc.streaming /\ IsActiveFormatOrIntervalCall(last')
        => /\ ret' = -EBUSY
           /\ PipeStateOf(pixelproc') = PipeStateOf(pixelproc)
           /\ pixelproc'.lock = FALSE ]_vars

C2_Witness ==
    /\ pixelproc.streaming
    /\ last.op = "set_fmt" /\ last.which = V4L2_SUBDEV_FORMAT_ACTIVE
    /\ IS_SRC(last.pad)
    /\ ret = -EBUSY
    /\ ~pixelproc.lock

C4_TryLeavesActive ==
    [][ last'.which = V4L2_SUBDEV_FORMAT_TRY
        => /\ PipeStateOf(pixelproc') = PipeStateOf(pixelproc)
           /\ (IsSupportedTryCall(last') => ret' = 0) ]_vars

C4_Witness ==
    /\ pixelproc.streaming /\ started
    /\ last.op = "set_fmt" /\ IS_SINK(last.pad)
    /\ last.which = V4L2_SUBDEV_FORMAT_TRY
    /\ ret = 0
    /\ state.try_fmt[1] # pixelproc.sink_fmt

\* C5: after a successful set_fmt on the sink pad the source format of the
\* same which has the width, height and colorimetry of the stored (clamped)
\* sink format, and the code YUYV8_2X8 when the sink code lies in
\* [Y8_1X8, SBGGR8_1X8), RGB565_2X8_LE otherwise; a set_fmt on the source
\* pad changes that source format and nothing else.
C5_SinkFormatPropagates ==
    [][ /\ ( last'.op = "set_fmt" /\ IS_SINK(last'.pad) /\ ret' = 0
             => LET snk == SinkFmtOf(pixelproc', state', last'.which)
                    src == SrcFmtOf(pixelproc', state', last'.which)
                IN  /\ src.width = snk.width /\ src.height = snk.height
                    /\ src.colorspace = snk.colorspace
                    /\ src.ycbcr_enc = snk.ycbcr_enc
                    /\ src.quantization = snk.quantization
                    /\ src.xfer_func = snk.xfer_func
                    /\ src.code =
                         IF /\ snk.code >= MEDIA_BUS_FMT_Y8_1X8
                            /\ snk.code < MEDIA_BUS_FMT_SBGGR8_1X8
                         THEN MEDIA_BUS_FMT_YUYV8_2X8
                         ELSE MEDIA_BUS_FMT_RGB565_2X8_LE )
        /\ ( last'.op = "set_fmt" /\ IS_SRC(last'.pad) /\ ret' = 0
             => IF last'.which = V4L2_SUBDEV_FORMAT_ACTIVE
                THEN /\ state' = state
                     /\ pixelproc' = [pixelproc EXCEPT !.src_fmt = pixelproc'.src_fmt]
                ELSE /\ pixelproc' = pixelproc
                     /\ state' = [state EXCEPT !.try_fmt[2] = state'.try_fmt[2]] )
      ]_vars

C5_Witness ==
    /\ last.op = "set_fmt" /\ IS_SINK(last.pad) /\ ret = 0
    /\ last.which = V4L2_SUBDEV_FORMAT_ACTIVE
    /\ pixelproc.sink_fmt.code = MEDIA_BUS_FMT_YUV8_1X24
    /\ pixelproc.src_fmt.code = MEDIA_BUS_FMT_YUYV8_2X8
    /\ pixelproc.src_fmt.width = 128

\* C6: after a successful set_fmt of the active sink format, the active crop
\* and the active compose are both the full frame {0, 0, w, h} of the stored
\* format.
C6_SinkFormatResetsSelection ==
    ( /\ last.op = "set_fmt" /\ IS_SINK(last.pad)
      /\ last.which = V4L2_SUBDEV_FORMAT_ACTIVE /\ ret = 0 )
    => /\ pixelproc.crop = FullFrame(pixelproc.sink_fmt)
       /\ pixelproc.compose = FullFrame(pixelproc.sink_fmt)

C6_Witness ==
    /\ last.op = "set_fmt" /\ IS_SINK(last.pad)
    /\ last.which = V4L2_SUBDEV_FORMAT_ACTIVE /\ ret = 0
    /\ nops >= 2
    /\ pixelproc.sink_fmt.width = DCMIPP_FRAME_MIN_WIDTH
    /\ pixelproc.crop = MkRect(0, 0, DCMIPP_FRAME_MIN_WIDTH, DCMIPP_FRAME_MIN_HEIGHT)

\* C7: set_selection of the crop with a rectangle r stores the crop clamped
\* against the sink format of the same which, makes the compose of that which
\* equal to the new crop and the source format of that which as wide and as
\* high as the new compose.
C7_CropSelection ==
    [][ ( /\ last'.op = "set_selection" /\ IS_SINK(last'.pad)
          /\ last'.target = V4L2_SEL_TGT_CROP )
        => \A r \in RectInputs :
             SetSelection(0, last'.which, V4L2_SEL_TGT_CROP, r)
             => LET snk == SinkFmtOf(pixelproc, state, last'.which)
                    crop == CropOf(pixelproc', state', last'.which)
                    compose == ComposeOf(pixelproc', state', last'.which)
                    src == SrcFmtOf(pixelproc', state', last'.which)
                IN  /\ ret' = 0
                    /\ crop = ClampedCrop(r, snk)
                    /\ compose = crop
                    /\ src.width = compose.width
                    /\ src.height = compose.height ]_vars

C7_Witness ==
    /\ last.op = "set_selection" /\ IS_SINK(last.pad) /\ ret = 0
    /\ last.target = V4L2_SEL_TGT_CROP
    /\ last.which = V4L2_SUBDEV_FORMAT_ACTIVE
    /\ pixelproc.crop = MkRect(16, 8, 64, 32)
    /\ pixelproc.compose = pixelproc.crop
    /\ pixelproc.src_fmt.width = 64 /\ pixelproc.src_fmt.height = 32

\* C8: in every reachable state the active compose size is bounded by the
\* active crop: crop.width / 64 <= compose.width <= crop.width and the same
\* for the heights.
C8_ComposeWithinCrop ==
    /\ pixelproc.crop.width \div DCMIPP_MAX_DOWNSCALE_RATIO <= pixelproc.compose.width
    /\ pixelproc.compose.width <= pixelproc.crop.width
    /\ pixelproc.crop.height \div DCMIPP_MAX_DOWNSCALE_RATIO <= pixelproc.compose.height
    /\ pixelproc.compose.height <= pixelproc.crop.height

C8_Witness ==
    /\ last.op = "set_selection" /\ last.target = V4L2_SEL_TGT_COMPOSE
    /\ last.which = V4L2_SUBDEV_FORMAT_ACTIVE /\ ret = 0
    /\ pixelproc.crop.width = 4096
    /\ pixelproc.compose.width = 64
    /\ pixelproc.compose.height < pixelproc.crop.height

\* C9: in every reachable state the compose rectangle has left = 0 and
\* top = 0.
C9_ComposeAtOrigin ==
    /\ pixelproc.compose.left = 0 /\ pixelproc.compose.top = 0
    /\ state.try_compose.left = 0 /\ state.try_compose.top = 0

\* C10: in every reachable state the active crop lies inside the full frame
\* of the active sink format and is at least as wide and as high as the
\* minimum crop.
C10_CropInsideSinkFrame ==
    /\ InsideFrame(pixelproc.crop, pixelproc.sink_fmt)
    /\ pixelproc.crop.width >= crop_min.width
    /\ pixelproc.crop.height >= crop_min.height

C10_Witness ==
    /\ last.op = "set_selection" /\ last.target = V4L2_SEL_TGT_CROP
    /\ last.which = V4L2_SUBDEV_FORMAT_ACTIVE /\ ret = 0
    /\ pixelproc.crop.left > 0
    /\ pixelproc.crop.left + pixelproc.crop.width = pixelproc.sink_fmt.width
    /\ pixelproc.crop.height = crop_min.height

\* C11: in every reachable state the active source format is as wide and as
\* high as the active compose rectangle.
C11_SourceSizeIsComposeSize ==
    /\ pixelproc.src_fmt.width = pixelproc.compose.width
    /\ pixelproc.src_fmt.height = pixelproc.compose.height

\* The width and height of fmt lie within the frame limits.
SizeInRange(fmt) ==
    /\ fmt.width >= DCMIPP_FRAME_MIN_WIDTH /\ fmt.width <= DCMIPP_FRAME_MAX_WIDTH
    /\ fmt.height >= DCMIPP_FRAME_MIN_HEIGHT /\ fmt.height <= DCMIPP_FRAME_MAX_HEIGHT

\* C12: in every reachable state the active sink format and the active
\* source format have a width in [MIN_WIDTH, MAX_WIDTH] and a height in
\* [MIN_HEIGHT, MAX_HEIGHT].
C12_FormatSizesInRange ==
    SizeInRange(pixelproc.sink_fmt) /\ SizeInRange(pixelproc.src_fmt)

\* The codes of a pix map list.
CodesOf(l) == {l[i].code : i \in 1..Len(l)}

\* The writes w hold a write of the register reg.
Wrote(w, reg) == \E i \in 1..Len(w) : w[i][1] = "write" /\ w[i][2] = reg

\* C13: in every reachable state the active sink code is in the sink
\* catalog and the active source code in the source catalog, and a start of
\* the stream never fails with -EINVAL on the lookup of the source code: the
\* only -EINVAL of a start is the one the colour conversion of the main pipe
\* gave, before any of its registers was written.
C13_CodesInCatalog ==
    /\ pixelproc.sink_fmt.code \in CodesOf(dcmipp_pixelproc_sink_pix_map_list)
    /\ pixelproc.src_fmt.code \in CodesOf(dcmipp_pixelproc_src_pix_map_list)
    /\ ( last.op = "s_stream" /\ last.enable # 0 /\ ret = -EINVAL
         => pixelproc.pipe_id = 1 /\ ~Wrote(regs, "P1YUVCR") )

\* A start succeeds after set_fmt on the source pad was given a code that no
\* catalog holds (SBGGR8_1X8, 320x240, interlaced) and stored the default.
C13_Witness ==
    /\ last.op = "s_stream" /\ last.enable # 0 /\ ret = 0
    /\ Wrote(regs, "PxPPCR")
    /\ pixelproc.src_fmt.code = PIXELPROC_MEDIA_BUS_SRC_FMT_DEFAULT
    /\ pixelproc.src_fmt.field = V4L2_FIELD_INTERLACED
    /\ pixelproc.src_fmt.width = 320
    /\ pixelproc.sink_fmt.width = DCMIPP_FMT_WIDTH_DEFAULT

\* The fields of the plan p fit the register fields: two bits for each
\* decimation, HVRATIO_MAX and HVDIV_MAX for the ratios and the dividers.
PlanInRange(p) ==
    /\ p.hdec <= 3 /\ p.vdec <= 3
    /\ p.hratio <= DCMIPP_PIXELPROC_HVRATIO_MAX
    /\ p.vratio <= DCMIPP_PIXELPROC_HVRATIO_MAX
    /\ p.hdiv <= DCMIPP_PIXELPROC_HVDIV_MAX
    /\ p.vdiv <= DCMIPP_PIXELPROC_HVDIV_MAX

\* C14: for every crop and compose the negotiation stored, with
\* crop / 64 <= compose <= crop in both dimensions, the scaler plan of a
\* start has hdec <= 3, vdec <= 3, hratio <= 65535, vratio <= 65535,
\* hdiv <= 1023 and vdiv <= 1023.
C14_PlanInRange ==
    ( /\ pixelproc.crop.width \div 64 <= pixelproc.compose.width
      /\ pixelproc.compose.width <= pixelproc.crop.width
      /\ pixelproc.crop.height \div 64 <= pixelproc.compose.height
      /\ pixelproc.compose.height <= pixelproc.crop.height )
    => \A dz \in QuotientsFor(pixelproc.compose.width * pixelproc.compose.height) :
          PlanInRange(DownscalePlan(pixelproc.crop, pixelproc.compose, dz))

\* The latest call started the stream.
StartedNow == last.op = "s_stream" /\ last.enable # 0

SameSize(r1, r2) == r1.width = r2.width /\ r1.height = r2.height

\* The writes w program the decimation hdec, vdec: a write of PxDCCR with the
\* two factors and the enable bit, or no write of PxDCCR when both are 0.
WroteDecimation(w, hdec, vdec) ==
    IF hdec = 0 /\ vdec = 0
    THEN ~Wrote(w, "PxDCCR")
    ELSE \E i \in 1..Len(w) :
            w[i] = <<"write", "PxDCCR", <<hdec, vdec, "ENABLE">> >>

WroteRatio(w, hratio, vratio) ==
    \E i \in 1..Len(w) : w[i] = <<"write", "PxDSRTIOR", <<hratio, vratio>> >>

WroteDivider(w, hdiv, vdiv) ==
    \E i \in 1..Len(w) : w[i] = <<"write", "PxDSCR", <<hdiv, vdiv, "ENABLE">> >>

\* C15 as stated: a start with compose as large as crop programs
\* hdec = vdec = 0, hratio = vratio = 8192 and hdiv = vdiv = 1024.
C15_OneToOnePlan_Stated ==
    StartedNow /\ SameSize(pixelproc.compose, pixelproc.crop)
    => /\ WroteDecimation(regs, 0, 0)
       /\ WroteRatio(regs, 8192, 8192)
       /\ WroteDivider(regs, 1024, 1024)

\* C15, amended: a start with compose as large as crop programs
\* hdec = vdec = 0, hratio = vratio = 8192 and hdiv = vdiv = 1023, the
\* divider 1024 cut to HVDIV_MAX.
C15_OneToOnePlan ==
    StartedNow /\ SameSize(pixelproc.compose, pixelproc.crop)
    => /\ WroteDecimation(regs, 0, 0)
       /\ WroteRatio(regs, 8192, 8192)
       /\ WroteDivider(regs, 1023, 1023)

C15_Witness ==
    /\ StartedNow
    /\ pixelproc.crop = MkRect(0, 0, 640, 480)
    /\ pixelproc.compose = MkRect(0, 0, 640, 480)
    /\ WroteDivider(regs, 1023, 1023)

\* The stream started with crop 640x480 and compose 80x60.
StartedEightTimesDown ==
    /\ StartedNow
    /\ pixelproc.crop.width = 640 /\ pixelproc.crop.height = 480
    /\ pixelproc.compose.width = 80 /\ pixelproc.compose.height = 60

\* C16 as stated: for crop 640x480 and compose 80x60 a start programs
\* hdec = vdec = 3 and hratio = 8192.
C16_EightTimesDown_Stated ==
    StartedEightTimesDown
    => /\ WroteDecimation(regs, 3, 3)
       /\ \E vratio \in 0..DCMIPP_PIXELPROC_HVRATIO_MAX :
             WroteRatio(regs, 8192, vratio)

\* C16, amended: for crop 640x480 and compose 80x60 a start programs no
\* decimation, hdec = vdec = 0, and hratio = vratio = 65535: 80 * 8 < 640 is
\* false, and 640 * 8192 / 80 = 65536 is cut to HVRATIO_MAX.
C16_EightTimesDown ==
    StartedEightTimesDown
    => /\ WroteDecimation(regs, 0, 0)
       /\ WroteRatio(regs, 65535, 65535)

C16_Witness ==
    /\ StartedEightTimesDown
    /\ WroteRatio(regs, 65535, 65535)
    /\ WroteDivider(regs, 128, 128)

\* The latest start of the stream programmed the frame-skip code frate.
StartedBefore(frate) ==
    \E i \in 1..Len(regs) : regs[i] = <<"set", "PxFCTCR", <<frate>> >>

\* C17 as stated: with the sink interval {1, 30}, s_frame_interval on the
\* source pad with {1, 30} gives the frame-skip code 0 and the source interval
\* {1, 30}, and with {1, 240} the code 3 and the source interval {8, 30}.
C17_SourceInterval_Stated ==
    [][ ( /\ last'.op = "s_frame_interval" /\ IS_SRC(last'.pad)
          /\ pixelproc.sink_interval = MkFract(1, 30) )
        => /\ ( SFrameInterval(1, MkFract(1, 30), 0)
                => /\ ret' = 0 /\ pixelproc'.frate = 0
                   /\ pixelproc'.src_interval = MkFract(1, 30) )
           /\ ( SFrameInterval(1, MkFract(1, 240), 0)
                => /\ ret' = 0 /\ pixelproc'.frate = 3
                   /\ pixelproc'.src_interval = MkFract(8, 30) ) ]_vars

\* C17, amended: with the sink interval {1, 30}, s_frame_interval on the
\* source pad with {1, 30} gives the code 0 and the source interval {1, 30};
\* with {1, 240}, an interval 8 times shorter, the ratio is 0 and the result
\* is the code 0 and the source interval {1, 30} as well.
C17_SourceInterval ==
    [][ ( /\ last'.op = "s_frame_interval" /\ IS_SRC(last'.pad)
          /\ pixelproc.sink_interval = MkFract(1, 30) )
        => \A interval \in {MkFract(1, 30), MkFract(1, 240)} :
             SFrameInterval(1, interval, 0)
             => /\ ret' = 0 /\ pixelproc'.frate = 0
                /\ pixelproc'.src_interval = MkFract(1, 30) ]_vars

\* A request on the source pad brought the code 3 back to 0.
C17_Witness ==
    /\ last.op = "s_frame_interval" /\ IS_SRC(last.pad) /\ ret = 0
    /\ pixelproc.sink_interval = MkFract(1, 30)
    /\ pixelproc.frate = 0
    /\ pixelproc.src_interval = MkFract(1, 30)
    /\ StartedBefore(3)

\* The interval src is the interval sink with the numerator multiplied by t.
ScaledBy(src, sink, t) ==
    /\ src.denominator = sink.denominator
    /\ src.numerator % t = 0
    /\ src.numerator \div t = sink.numerator

\* C18: in every reachable state the frame-skip code is in 0..3 and the
\* source interval is the sink interval with the numerator multiplied by
\* table[code], table = <<1, 2, 4, 8>>.
C18_SourceIsSinkScaled ==
    /\ pixelproc.frate \in 0..3
    /\ ScaledBy(pixelproc.src_interval, pixelproc.sink_interval,
                <<1, 2, 4, 8>>[pixelproc.frate + 1])

\* C19: a successful s_frame_interval on the sink pad stores the request as
\* the sink interval (the sink interval in place when the request has a zero),
\* sets the frame-skip code to 0 and the source interval to the new sink
\* interval, whatever the code was.
C19_SinkIntervalResetsSkip ==
    [][ ( last'.op = "s_frame_interval" /\ IS_SINK(last'.pad) /\ ret' = 0 )
        => /\ pixelproc'.frate = 0
           /\ pixelproc'.src_interval = pixelproc'.sink_interval
           /\ \A interval \in IntervalInputs :
                SFrameInterval(0, interval, 0)
                => pixelproc'.sink_interval =
                     IF interval.numerator = 0 \/ interval.denominator = 0
                     THEN pixelproc.sink_interval ELSE interval ]_vars

\* The sink interval was set after a stream had been started with code 3.
C19_Witness ==
    /\ last.op = "s_frame_interval" /\ IS_SINK(last.pad) /\ ret = 0
    /\ StartedBefore(3)
    /\ pixelproc.frate = 0
    /\ pixelproc.sink_interval = MkFract(1, 240)
    /\ pixelproc.src_interval = MkFract(1, 240)

\* The positions in w of the accesses of one kind to the register reg.
Idx(w, kind, reg) == {i \in 1..Len(w) : w[i][1] = kind /\ w[i][2] = reg}

\* Every position of A comes before every position of B.
AllBefore(A, B) == \A i \in A, j \in B : i < j

\* C20: within one start of the stream the registers are written in this
\* order: the frame-skip code; the crop origin, then the crop size with its
\* enable bit; the decimation register, cleared of its enable bit and then
\* written with the factors and the enable bit if and only if compose * 8 is
\* below crop in a dimension; the downsize ratio; the downsize target size;
\* the dividers with the downsize enable bit; on the main pipe the six
\* coefficients of the colour conversion, then its mode register; the pixel
\* packer; and last, when it is written, the gamma control.  A start that
\* returns 0 has made each of these writes once.
C20_WriteOrder ==
    StartedNow =>
    LET frate == Idx(regs, "set", "PxFCTCR")
        crstr == Idx(regs, "write", "PxCRSTR")
        crszr == Idx(regs, "write", "PxCRSZR")
        dcclr == Idx(regs, "clear", "PxDCCR")
        dccr == Idx(regs, "write", "PxDCCR")
        dsrtior == Idx(regs, "write", "PxDSRTIOR")
        dsszr == Idx(regs, "write", "PxDSSZR")
        dscr == Idx(regs, "write", "PxDSCR")
        matrix == Idx(regs, "write", "P1YUVRR1")
        mode == Idx(regs, "write", "P1YUVCR")
        ppcr == Idx(regs, "write", "PxPPCR")
        gamma == Idx(regs, "write", "PxGMCR")
        decimate == \/ pixelproc.compose.width * 8 < pixelproc.crop.width
                    \/ pixelproc.compose.height * 8 < pixelproc.crop.height
    IN  /\ AllBefore(frate, crstr)
        /\ AllBefore(crstr, crszr)
        /\ AllBefore(crszr, dcclr)
        /\ AllBefore(dcclr, dccr)
        /\ AllBefore(dcclr \cup dccr, dsrtior)
        /\ AllBefore(dsrtior, dsszr)
        /\ AllBefore(dsszr, dscr)
        /\ AllBefore(dscr, matrix \cup mode \cup ppcr)
        /\ AllBefore(matrix, mode)
        /\ AllBefore(mode, ppcr)
        /\ AllBefore(ppcr, gamma)
        /\ gamma \subseteq {Len(regs)}
        /\ Cardinality(frate) = 1 /\ Cardinality(crstr) = 1
        /\ Cardinality(crszr) = 1 /\ Cardinality(dcclr) = 1
        /\ Cardinality(dsrtior) = 1 /\ Cardinality(dsszr) = 1
        /\ Cardinality(dscr) = 1
        /\ \A i \in crszr \cup dscr : regs[i][3][3] = "ENABLE"
        /\ \A i \in dccr : /\ regs[i][3][3] = "ENABLE"
                            /\ (regs[i][3][1] # 0 \/ regs[i][3][2] # 0)
        /\ Cardinality(dccr) = IF decimate THEN 1 ELSE 0
        /\ ( ret = 0
             => /\ Cardinality(ppcr) = 1
                /\ ( pixelproc.pipe_id = 1
                     => Cardinality(matrix) = 6 /\ Cardinality(mode) = 1 ) )

\* A start of the main pipe that returned 0, wrote the decimation and ended
\* with the gamma control.
C20_Witness ==
    /\ StartedNow /\ ret = 0
    /\ pixelproc.pipe_id = 1
    /\ Wrote(regs, "PxDCCR")
    /\ Wrote(regs, "P1YUVCR")
    /\ regs[Len(regs)][2] = "PxGMCR"

\* The writes w touch no register of the colour conversion.
NoColorConvWrite(w) == ~Wrote(w, "P1YUVRR1") /\ ~Wrote(w, "P1YUVCR")

\* C21: the registers are written by a start of the stream only; a start of
\* the auxiliary pipe writes no register of the colour conversion and does
\* not fail; a start of the main pipe to which dcmipp_colorconv_configure
\* answers an error returns that error, writes neither the registers of the
\* colour conversion nor the pixel packer, does not apply the controls and
\* returns with the lock released.
C21_ColorConvMainPipeOnly ==
    [][ /\ ( regs' # regs => last'.op = "s_stream" /\ last'.enable # 0 )
        /\ ( last'.op = "s_stream" /\ last'.enable # 0
             => /\ ( pixelproc.pipe_id # 1
                     => NoColorConvWrite(regs') /\ ret' = 0 )
                /\ \A cc \in ColorConvResults, in_use \in BOOLEAN,
                      dz \in DivByZeroQuotients :
                     ( /\ pixelproc.pipe_id = 1 /\ cc.ret # 0
                       /\ SStream(1, cc, in_use, dz) )
                     => /\ ret' = cc.ret
                        /\ NoColorConvWrite(regs')
                        /\ ~Wrote(regs', "PxPPCR")
                        /\ ~Wrote(regs', "PxGMCR")
                        /\ pixelproc'.lock = FALSE ) ]_vars

\* A start of the main pipe failed in the colour conversion, after the
\* downscale was programmed.
C21_Witness ==
    /\ StartedNow /\ ret = -EINVAL
    /\ pixelproc.pipe_id = 1
    /\ Wrote(regs, "PxDSCR")
    /\ NoColorConvWrite(regs) /\ ~Wrote(regs, "PxPPCR")
    /\ ~pixelproc.lock

\* C24: in every reachable state the try crop lies inside the full frame of
\* the try sink format.
C24_TryCropInsideTryFrame ==
    InsideFrame(state.try_crop, state.try_fmt[1])

\* C25: at every start of the stream the active compose is at least 1 wide
\* and 1 high and so is the crop after the decimation, so that no divisor of
\* the scaler plan is zero.
C25_NoZeroDivisorAtStart ==
    StartedNow
    => /\ pixelproc.compose.width >= 1 /\ pixelproc.compose.height >= 1
       /\ Decimation(pixelproc.compose.width, pixelproc.crop.width, 0).post_dec >= 1
       /\ Decimation(pixelproc.compose.height, pixelproc.crop.height, 0).post_dec >= 1

\* The crop, the compose and the source format, active and try.
SelectionStateOf(dev, st) ==
    <<dev.crop, dev.compose, dev.src_fmt,
      st.try_crop, st.try_compose, st.try_fmt[2]>>

\* C23: get_selection and set_selection on the source pad, and set_selection
\* of the target CROP_BOUNDS or CROP_DEFAULT, return -EINVAL and leave the
\* crop, the compose and the source format as they were; get_selection on
\* the sink pad of CROP_BOUNDS and of CROP_DEFAULT returns the full frame
\* {0, 0, width, height} of the sink format of the which of the call.
C23_SelectionTargets ==
    [][ /\ ( /\ last'.op \in {"get_selection", "set_selection"}
             /\ \/ IS_SRC(last'.pad)
                \/ /\ last'.op = "set_selection"
                   /\ last'.target \in {V4L2_SEL_TGT_CROP_BOUNDS,
                                        V4L2_SEL_TGT_CROP_DEFAULT} )
           => /\ ret' = -EINVAL
              /\ SelectionStateOf(pixelproc', state')
                   = SelectionStateOf(pixelproc, state)
        /\ ( /\ last'.op = "get_selection" /\ IS_SINK(last'.pad)
             /\ last'.target \in {V4L2_SEL_TGT_CROP_BOUNDS,
                                  V4L2_SEL_TGT_CROP_DEFAULT} )
           => /\ ret' = 0
              /\ out' = FullFrame(SinkFmtOf(pixelproc, state, last'.which))
      ]_vars

\* The bounds of the try state were read while the active sink format had
\* another size.
C23_Witness ==
    /\ last.op = "get_selection" /\ IS_SINK(last.pad) /\ ret = 0
    /\ last.which = V4L2_SUBDEV_FORMAT_TRY
    /\ last.target = V4L2_SEL_TGT_CROP_DEFAULT
    /\ out = MkRect(0, 0, 128, 96)
    /\ pixelproc.sink_fmt.width = DCMIPP_FRAME_MIN_WIDTH

\* What the set_selection that was entered leaves when it returns.
Finished(c) ==
    [crop |-> IF c.target = V4L2_SEL_TGT_CROP THEN c.r ELSE c.found.crop,
     compose |-> c.r, width |-> c.r.width, height |-> c.r.height]

\* C22: the negotiation operations hold the lock of the pipe, so that a
\* start of the stream never reads a partial update of the crop, the compose
\* and the source size: when a start runs while a set_selection was entered
\* and has not returned, it reads either what that call found or what that
\* call leaves.
C22_StartSeesWholeUpdates ==
    [][ ( last'.op = "s_stream" /\ last'.enable # 0 /\ nops' # nops )
        => \/ sel.pc = "idle"
           \/ Negotiated(pixelproc) \in {sel.found, Finished(sel)} ]_vars

\* The sink interval has no zero member.
SinkIntervalNonZero(dev) ==
    /\ dev.sink_interval.numerator # 0
    /\ dev.sink_interval.denominator # 0

\* C26: the sink interval has a nonzero numerator and a nonzero denominator in
\* every state, and the divisor sink.numerator * requested.denominator of
\* s_frame_interval on the source pad, a product of 32 bits, is never zero.
C26_IntervalDivisorNonZero ==
    /\ SinkIntervalNonZero(pixelproc)
    /\ [][ /\ SinkIntervalNonZero(pixelproc')
           /\ \A interval \in WideIntervalInputs, dz \in DivByZeroQuotients :
                SFrameInterval(1, interval, dz)
                => RatioDivisor(pixelproc.sink_interval, interval) # 0 ]_vars

====
